---- MODULE Spec2Model ----
(***************************************************************************)
(* Model of pixeltable/utils/video.py: FrameIterator, the frame sequencer  *)
(* that turns the file-closed notifications of an asynchronous ffmpeg      *)
(* container into an in-order stream of (frame idx, path) pairs.           *)
(*                                                                         *)
(* Threads of control:                                                     *)
(*   - the caller's thread, which runs __next__/seek/close; its position   *)
(*     inside the running operation is pc;                                 *)
(*   - the ffmpeg container (ProcWrite, ProcExit);                         *)
(*   - the watchdog observer thread (WatcherDeliver).                      *)
(***************************************************************************)
EXTENDS Integers, Sequences, FiniteSets, TLC

\* ---------------------------------------------------------------- bounds
\* largest number of frames the extracted video has
MaxFrames ==
    3

\* largest number of files another run writes into the shared directory
MaxOtherFrames ==
    2

\* largest number of notifications injected from outside the run
MaxForced ==
    1

\* ------------------------------------------------------------- constants
\* width of the frame number in the output file name ('%07d')
NumWidth ==
    7

\* self.id of the sequencer under study, and the id of some other run
SelfId ==
    "abc123"

OtherId ==
    "otherrun"

\* Python's None for the Optional[int] field num_frames (distinct from the
\* -1 that next_frame_idx uses for 'not started')
NoneInt ==
    0 - 2

\* Python's None for a slot of frame_paths; str(None) names no file
NonePath ==
    [run |-> "None", digits |-> <<>>]

\* --------------------------------------------------------- file names
\* the i-th (1-based) decimal digit of k written with NumWidth digits
Digit(k, i) ==
    (k \div (10 ^ (NumWidth - i))) % 10

\* f'{id}_%07d.jpg' % k : the name ffmpeg gives output file number k
FrameFile(id, k) ==
    [run |-> id, digits |-> [i \in 1..NumWidth |-> Digit(k, i)]]

\* a name of the run without a number, e.g. '{id}_x.jpg'
JunkFile(id) ==
    [run |-> id, digits |-> <<>>]

\* int(m.group(1)) : value of a digit string
RECURSIVE ParseInt(_)
ParseInt(ds) ==
    IF ds = <<>> THEN 0
    ELSE ParseInt(SubSeq(ds, 1, Len(ds) - 1)) * 10 + ds[Len(ds)]

\* self.idx_re.match(path.name) is not None, idx_re = '{id}_(\d+)\.jpg'
IdxReMatch(id, name) ==
    name.run = id /\ Len(name.digits) >= 1

\* a Handler whose pattern is '*.jpg'
HandlerMatchAnyRun(id, name) ==
    TRUE

\* the Handler's pattern '{id}_*.jpg'
HandlerMatch(id, name) ==
    name.run = id

\* [None] * n
RECURSIVE NoneList(_)
NoneList(n) ==
    IF n <= 0 THEN <<>> ELSE <<NonePath>> \o NoneList(n - 1)

\* _add_path, lines 192-196, for a name that matched idx_re
AddPathNoDecrement(fp, name) ==
    LET idx == ParseInt(name.digits)
        ext == IF idx >= Len(fp) THEN fp \o NoneList(idx - Len(fp) + 1) ELSE fp
    IN  [ext EXCEPT ![idx + 1] = name]

AddPath(fp, name) ==
    LET idx == ParseInt(name.digits) - 1
        ext == IF idx >= Len(fp) THEN fp \o NoneList(idx - Len(fp) + 1) ELSE fp
    IN  [ext EXCEPT ![idx + 1] = name]

\* ------------------------------------------------------------------ state
VARIABLES
    pc,               \* position of the caller's thread
    op,               \* the operation the caller's thread is running
    target,           \* frame_idx argument of the running seek
    next_frame_idx,   \* self.next_frame_idx
    num_frames,       \* self.num_frames
    frame_paths,      \* self.frame_paths
    path_queue,       \* self.path_queue
    observer,         \* self.observer: "none", "running", "stopped"
    container_status, \* self.container.status as last loaded
    proc,             \* the container itself: "notstarted", "running", "exited"
    written,          \* number of files the container has written
    total,            \* number of frames the extraction produces
    log,              \* the container's log once it has exited
    pending,          \* closed files the observer has not yet reported
    files,            \* the files in tmp_frames_dir
    result,           \* outcome of the last finished operation
    prev,             \* outcome of the operation before it
    returned,         \* the pairs returned by __next__, in order
    forced,           \* number of injected notifications
    entry_idx,        \* next_frame_idx when the last operation began
    current_frame_path, \* FrameExtractor.current_frame_path
    last_req,         \* frame_idx of the last two update() calls
    est_num_frames,   \* self.est_num_frames
    ctor              \* what the constructor was given and did

vars ==
    <<pc, op, target, next_frame_idx, num_frames, frame_paths, path_queue,
      observer, container_status, proc, written, total, log, pending, files,
      result, prev, returned, forced, entry_idx, current_frame_path,
      last_req, est_num_frames, ctor>>

seqVars ==
    <<next_frame_idx, num_frames, frame_paths, path_queue, observer,
      container_status>>

envVars ==
    <<proc, written, total, log, pending, files, forced>>

\* the adapter's field, the record of requests and the constructor's results
ghostVars ==
    <<current_frame_path, last_req, est_num_frames, ctor>>

\* what a caller can observe of the sequencer and its resources
SeqState ==
    <<next_frame_idx, num_frames, frame_paths, observer, container_status,
      files>>

NoResult ==
    [op |-> "none", kind |-> "none", idx |-> 0 - 1, path |-> NonePath,
     arg |-> 0 - 1]

NoLog ==
    [marker |-> FALSE, frame |-> 0]

\* the fields of a FrameIterator fresh from __init__, nothing started
Fresh ==
    /\ op = "none"
    /\ target = 0 - 1
    /\ next_frame_idx = 0 - 1
    /\ num_frames = NoneInt
    /\ frame_paths = <<>>
    /\ path_queue = <<>>
    /\ observer = "none"
    /\ container_status = "none"
    /\ proc = "notstarted"
    /\ written = 0
    /\ total \in 1..MaxFrames
    /\ log = NoLog
    /\ pending = {}
    /\ files = {}
    /\ result = NoResult
    /\ prev = NoResult
    /\ returned = <<>>
    /\ forced = 0
    /\ entry_idx = 0 - 1
    /\ current_frame_path = NonePath
    /\ last_req = <<0 - 1, 0 - 1>>

\* a sequencer constructed over an existing video with an ffmpeg_filter, so
\* without an estimate
Init ==
    /\ Fresh
    /\ pc = "idle"
    /\ est_num_frames = NoneInt
    /\ ctor = [exists |-> TRUE, filter |-> TRUE, probed |-> FALSE, probe_ok |-> FALSE]

\* the outcome of an operation, as the caller sees it
Res(o, kind, idx, path, arg) ==
    [op |-> o, kind |-> kind, idx |-> idx, path |-> path, arg |-> arg]

\* nothing constructed yet
InitNew ==
    /\ Fresh
    /\ pc = "new"
    /\ est_num_frames = NoneInt
    /\ ctor = [exists |-> FALSE, filter |-> FALSE, probed |-> FALSE, probe_ok |-> FALSE]

\* what escapes __init__ when the ffprobe container or the parse of its
\* output fails: lines 48-61 run outside any try
ProbeErrorSwallowed(ok) ==
    "none"

ProbeError(ok) ==
    IF ok THEN "none" ELSE "ProbeError"

\* ffmpeg_filter is None: the estimate is attempted, line 47
ProbeAlways(filter) ==
    TRUE

ProbeAttempted(filter) ==
    ~filter

\* FrameIterator(video_path_str, fps, ffmpeg_filter), lines 32-71:
\* exists: the path is an existing file; filter: ffmpeg_filter is given;
\* ok: ffprobe runs and its output parses; est: the estimate it yields
Construct(exists, filter, ok, est) ==
    LET probed == exists /\ ProbeAttempted(filter)
        exc == IF ~exists THEN "RuntimeError"
               ELSE IF probed THEN ProbeError(ok)
               ELSE "none"
    IN  /\ pc = "new"
        /\ ctor' = [exists |-> exists, filter |-> filter, probed |-> probed,
                    probe_ok |-> probed /\ ok]
        /\ est_num_frames' = IF exc = "none" /\ probed /\ ok THEN est ELSE NoneInt
        /\ pc' = IF exc = "none" THEN "idle" ELSE "failed"
        /\ result' = Res("init", IF exc = "none" THEN "ok" ELSE exc, 0 - 1,
                         NonePath, 0 - 1)
        /\ UNCHANGED <<op, target, prev, entry_idx, current_frame_path, last_req,
                       returned, seqVars, envVars>>

\* ------------------------------------------------- the caller's thread
\* an operation begins: remember what preceded it
Begin(o, t) ==
    /\ op' = o
    /\ target' = t
    /\ prev' = result
    /\ entry_idx' = next_frame_idx

\* the caller's operation that the running method belongs to
ResOp(o) ==
    IF o \in {"update_seek", "update_next"} THEN "update" ELSE o

\* an exception leaves __next__; close() catches StopIteration and returns
Raise(exc) ==
    /\ pc' = "idle"
    /\ result' = Res(ResOp(op), IF exc = "StopIteration" /\ op = "close" THEN "ok" ELSE exc,
                     0 - 1, NonePath, target)

\* os.remove(p): the exception it raises
OsRemoveError(fs, p) ==
    IF p \in fs THEN "none" ELSE "FileNotFoundError"

\* the try/except around os.remove: what escapes it
RemoveEscapesUncaught(e) ==
    e

RemoveEscapes(e) ==
    IF e = "FileNotFoundError" THEN "none" ELSE e

\* os.remove(p): the directory afterwards
OsRemoveKeeps(fs, p) ==
    fs

\* a removal that clears every file of the run of p
OsRemoveRun(fs, p) ==
    {q \in fs : q.run # p.run}

OsRemove(fs, p) ==
    fs \ {p}

\* the test of line 166 (and 141): the cursor has reached the known bound
AtBoundAlways(cursor, bound) ==
    TRUE

AtBound(cursor, bound) ==
    cursor = bound

\* a top of a pull that never takes the cursor to be at the bound
AtBoundTopNever(cursor, bound) ==
    FALSE

\* the test at the top of a pull, line 141
AtBoundTop(cursor, bound) ==
    cursor = bound

\* self.next_frame_idx += 2
AdvanceTwice(i) ==
    i + 2

\* self.next_frame_idx += 1
AdvanceStuck(i) ==
    i

Advance(i) ==
    i + 1

\* the observer after observer.stop(); observer.join()
ObserverStopLeaks(o) ==
    o

ObserverStop(o) ==
    "stopped"

\* path_queue.get(timeout=1) gives up on an empty queue
GetNeverTimesOut ==
    FALSE

GetTimesOut ==
    TRUE

\* __next__() is called
CallNext ==
    /\ pc = "idle"
    /\ Begin("next", 0 - 1)
    /\ pc' = IF next_frame_idx = 0 - 1 THEN "s_obs" ELSE "top"
    /\ UNCHANGED <<seqVars, envVars, result, returned, ghostVars>>

\* seek(k) is called: the assertion of line 202
CallSeek(k) ==
    /\ pc = "idle"
    /\ Begin("seek", k)
    /\ IF ~(k >= next_frame_idx)
       THEN /\ pc' = "idle"
            /\ result' = Res("seek", "AssertionError", 0 - 1, NonePath, k)
       ELSE /\ pc' = IF next_frame_idx = 0 - 1 THEN "s_obs" ELSE "seek_loop"
            /\ UNCHANGED result
    /\ UNCHANGED <<seqVars, envVars, returned, ghostVars>>

\* close() is called, as starting the extraction when it finds none
CallCloseStarts ==
    /\ pc = "idle"
    /\ Begin("close", 0 - 1)
    /\ pc' = IF next_frame_idx = 0 - 1 THEN "s_obs" ELSE "top"
    /\ UNCHANGED <<seqVars, envVars, result, returned, ghostVars>>

\* close() is called: lines 215-217
CallClose ==
    /\ pc = "idle"
    /\ Begin("close", 0 - 1)
    /\ IF next_frame_idx = 0 - 1
       THEN /\ pc' = "idle"
            /\ result' = Res("close", "ok", 0 - 1, NonePath, 0 - 1)
       ELSE /\ pc' = "top"
            /\ UNCHANGED result
    /\ UNCHANGED <<seqVars, envVars, returned, ghostVars>>

\* where the caller goes on once _start_extraction has returned: seek and
\* update to seek's loop (line 205), a pull to line 132
AfterStart(o) ==
    IF o \in {"seek", "update_seek"} THEN "seek_loop" ELSE "top"

\* a start that runs the container first and starts the observer after it
StartStepContainerFirst(what) ==
    IF what = "observer" THEN "s_run" ELSE "s_obs"

\* the order of _start_extraction: "s_obs" is its first step and "s_run" its
\* second; the observer is scheduled and started first (lines 96-100), the
\* container is run second (lines 102-114)
StartStep(what) ==
    IF what = "observer" THEN "s_obs" ELSE "s_run"

\* _start_extraction, lines 96-100: the observer is scheduled and started
StartObserver ==
    /\ pc = StartStep("observer")
    /\ observer' = "running"
    /\ pc' = IF pc = "s_obs" THEN "s_run" ELSE AfterStart(op)
    /\ UNCHANGED <<op, target, prev, entry_idx, ghostVars, result, returned, envVars,
                   next_frame_idx, num_frames, frame_paths, path_queue,
                   container_status>>

\* _start_extraction, lines 102-115: the container is run detached
RunContainer ==
    /\ pc = StartStep("container")
    /\ proc' = "running"
    /\ container_status' = "created"
    /\ next_frame_idx' = 0
    /\ pc' = IF pc = "s_obs" THEN "s_run" ELSE AfterStart(op)
    /\ UNCHANGED <<op, target, prev, entry_idx, ghostVars, result, returned, written, total,
                   log, pending, files, forced, num_frames, frame_paths,
                   path_queue, observer>>

\* seek, lines 205-206; update goes on to its next(self.frames), line 241
SeekLoop ==
    /\ pc = "seek_loop"
    /\ IF target < next_frame_idx
       THEN /\ pc' = "top"
            /\ UNCHANGED <<op, result>>
       ELSE IF op = "update_seek"
       THEN /\ pc' = "top"
            /\ op' = "update_next"
            /\ UNCHANGED result
       ELSE /\ pc' = "idle"
            /\ result' = Res("seek", "ok", 0 - 1, NonePath, target)
            /\ UNCHANGED op
    /\ UNCHANGED <<target, prev, entry_idx, ghostVars, returned, seqVars, envVars>>

\* prev_frame_idx taken two below the cursor
PrevFrameIdxTwoBack(i) ==
    i - 2

\* prev_frame_idx = self.next_frame_idx - 1, line 132
PrevFrameIdx(i) ==
    i - 1

\* __next__, lines 132-150: delete the previous file, test the bound, pad
NextTop ==
    LET prev_frame_idx == PrevFrameIdx(next_frame_idx)
        hasPrev == prev_frame_idx >= 0
        badIdx  == hasPrev /\ prev_frame_idx >= Len(frame_paths)
        prevPath == IF hasPrev /\ ~badIdx THEN frame_paths[prev_frame_idx + 1]
                    ELSE NonePath
        rmExc   == IF hasPrev /\ ~badIdx
                   THEN RemoveEscapes(OsRemoveError(files, prevPath))
                   ELSE "none"
        needPad == /\ Len(frame_paths) < next_frame_idx + 1
                   /\ (num_frames = NoneInt \/ Len(frame_paths) < num_frames)
        exc == IF badIdx THEN "IndexError"
               ELSE IF rmExc # "none" THEN rmExc
               ELSE IF num_frames # NoneInt /\ AtBoundTop(next_frame_idx, num_frames)
                    THEN "StopIteration"
               ELSE IF needPad /\ Len(frame_paths) # next_frame_idx
                    THEN "AssertionError"
               ELSE "none"
    IN  /\ pc = "top"
        /\ files' = IF hasPrev /\ ~badIdx THEN OsRemove(files, prevPath) ELSE files
        /\ observer' = IF exc = "StopIteration" THEN ObserverStop(observer) ELSE observer
        /\ frame_paths' = IF exc = "none" /\ needPad
                          THEN Append(frame_paths, NonePath) ELSE frame_paths
        /\ IF exc = "none"
           THEN pc' = "loop" /\ UNCHANGED result
           ELSE Raise(exc)
        /\ UNCHANGED <<op, target, prev, entry_idx, ghostVars, returned, next_frame_idx,
                       num_frames, path_queue, container_status, proc, written,
                       total, log, pending, forced>>

\* the path table once the frame at slot i has been returned: lines
\* 180-183 leave it as it is
AfterDeliveryCleared(fp, i) ==
    [fp EXCEPT ![i + 1] = NonePath]

AfterDelivery(fp, i) ==
    fp

\* __next__, line 153 and lines 180-183: test the slot, return the frame
NextLoop ==
    /\ pc = "loop"
    /\ IF next_frame_idx >= Len(frame_paths)
       THEN /\ Raise("IndexError")
            /\ UNCHANGED <<next_frame_idx, returned, frame_paths, current_frame_path>>
       ELSE IF frame_paths[next_frame_idx + 1] = NonePath
       THEN /\ pc' = "poll"
            /\ UNCHANGED <<result, next_frame_idx, returned, frame_paths,
                           current_frame_path>>
       ELSE /\ returned' = Append(returned,
                                  <<next_frame_idx, frame_paths[next_frame_idx + 1]>>)
            /\ next_frame_idx' = Advance(next_frame_idx)
            /\ frame_paths' = AfterDelivery(frame_paths, next_frame_idx)
            /\ IF op = "next"
               THEN /\ pc' = "idle"
                    /\ result' = Res("next", "frame", next_frame_idx,
                                     frame_paths[next_frame_idx + 1], target)
                    /\ UNCHANGED current_frame_path
               ELSE IF op = "update_next"
               THEN /\ pc' = "idle"
                    /\ current_frame_path' = frame_paths[next_frame_idx + 1]
                    /\ result' = Res("update", "ok", next_frame_idx,
                                     frame_paths[next_frame_idx + 1], target)
               ELSE /\ pc' = IF op = "close" THEN "top" ELSE "seek_loop"
                    /\ UNCHANGED <<result, current_frame_path>>
    /\ UNCHANGED <<op, target, prev, entry_idx, last_req, est_num_frames, ctor,
                   envVars, num_frames, path_queue, observer, container_status>>

\* int(m.group(1)) of the frame=<count> marker, lines 162-165, as falling
\* back on the estimate when there is one
ParseFrameCountOrEstimate(lg, est) ==
    IF est # NoneInt THEN est ELSE lg.frame

\* int(m.group(1)) of the frame=<count> marker, lines 162-165
ParseFrameCount(lg, est) ==
    lg.frame

\* __next__, lines 155-169: poll the container, read the frame count
NextPoll ==
    LET reload == container_status # "exited"
        st     == IF reload
                  THEN (IF proc = "exited" THEN "exited" ELSE "running")
                  ELSE container_status
        first  == reload /\ st = "exited"
        nf     == IF first /\ log.marker THEN ParseFrameCount(log, est_num_frames)
                  ELSE num_frames
        exc    == IF first /\ ~log.marker THEN "RuntimeError"
                  ELSE IF first /\ AtBound(next_frame_idx, nf) THEN "StopIteration"
                  ELSE "none"
    IN  /\ pc = "poll"
        /\ container_status' = st
        /\ num_frames' = nf
        /\ observer' = IF exc = "StopIteration" THEN ObserverStop(observer) ELSE observer
        /\ IF exc = "none"
           THEN pc' = "get" /\ UNCHANGED result
           ELSE Raise(exc)
        /\ UNCHANGED <<op, target, prev, entry_idx, ghostVars, returned, envVars,
                       next_frame_idx, frame_paths, path_queue>>

\* _add_path, lines 189-191: silently skipping a name that does not match
AddPathErrorDropped(name) ==
    "none"

\* _add_path, lines 189-191: the exception for a name that does not match
AddPathError(name) ==
    IF IdxReMatch(SelfId, name) THEN "none" ELSE "RuntimeError"

\* __next__, lines 174-178: bounded receive, then _add_path
NextGet ==
    /\ pc = "get"
    /\ IF path_queue = <<>>
       THEN /\ GetTimesOut
            /\ pc' = "loop"
            /\ UNCHANGED <<result, path_queue, frame_paths>>
       ELSE LET event == Head(path_queue)
                exc == AddPathError(event)
            IN  /\ path_queue' = Tail(path_queue)
                /\ IF exc # "none"
                   THEN /\ Raise(exc)
                        /\ UNCHANGED frame_paths
                   ELSE /\ frame_paths' = IF IdxReMatch(SelfId, event)
                                          THEN AddPath(frame_paths, event)
                                          ELSE frame_paths
                        /\ pc' = "loop"
                        /\ UNCHANGED result
    /\ UNCHANGED <<op, target, prev, entry_idx, ghostVars, returned, envVars, next_frame_idx,
                   num_frames, observer, container_status>>

\* ------------------------------------------------ container and observer
\* ffmpeg writes and closes its next output file
ProcWrite ==
    /\ proc = "running"
    /\ written < total
    /\ written' = written + 1
    /\ files' = files \cup {FrameFile(SelfId, written + 1)}
    /\ pending' = IF observer = "running" /\ HandlerMatch(SelfId, FrameFile(SelfId, written + 1))
                  THEN pending \cup {FrameFile(SelfId, written + 1)}
                  ELSE pending
    /\ UNCHANGED <<pc, op, target, prev, entry_idx, ghostVars, result, returned, seqVars,
                   proc, total, log, forced>>

\* ffmpeg exits; the last lines of its log report frame=<count>
ProcExit ==
    /\ proc = "running"
    /\ written = total
    /\ proc' = "exited"
    /\ log' = [marker |-> TRUE, frame |-> written]
    /\ UNCHANGED <<pc, op, target, prev, entry_idx, ghostVars, result, returned, seqVars,
                   written, total, pending, files, forced>>

\* Handler.on_closed: the observer thread puts one event on the queue
WatcherDeliver ==
    /\ observer = "running"
    /\ \E f \in pending :
         /\ path_queue' = Append(path_queue, f)
         /\ pending' = pending \ {f}
    /\ UNCHANGED <<pc, op, target, prev, entry_idx, ghostVars, result, returned,
                   next_frame_idx, num_frames, frame_paths, observer,
                   container_status, proc, written, total, log, files, forced>>

\* ------------------------------------------- another run, same directory
\* the container of a FrameIterator with another id writes and closes one
\* of its output files in tmp_frames_dir; this run's observer, when it is
\* running, sees the event and its Handler matches the name
OtherProcWrite ==
    /\ pc \notin {"new", "failed"}
    /\ \E k \in 1..MaxOtherFrames :
         /\ FrameFile(OtherId, k) \notin files
         /\ files' = files \cup {FrameFile(OtherId, k)}
         /\ pending' = IF observer = "running" /\ HandlerMatch(SelfId, FrameFile(OtherId, k))
                       THEN pending \cup {FrameFile(OtherId, k)}
                       ELSE pending
    /\ UNCHANGED <<pc, op, target, prev, entry_idx, ghostVars, result, returned,
                   seqVars, proc, written, total, log, forced>>

\* --------------------------------------------------------- fault injection
\* ffmpeg exits with a log whose last lines hold no frame=<count>
ProcExitNoMarker ==
    /\ proc = "running"
    /\ written = total
    /\ proc' = "exited"
    /\ log' = [marker |-> FALSE, frame |-> 0]
    /\ UNCHANGED <<pc, op, target, prev, entry_idx, ghostVars, result, returned, seqVars,
                   written, total, pending, files, forced>>

\* the names that can be injected: a file of another run, a numberless name
ForcedNames ==
    {FrameFile(OtherId, 1), JunkFile(SelfId)}

\* an event that the run's pattern does not match is put on the queue
ForceDeliver ==
    /\ observer = "running"
    /\ forced < MaxForced
    /\ forced' = forced + 1
    /\ \E name \in ForcedNames : path_queue' = Append(path_queue, name)
    /\ UNCHANGED <<pc, op, target, prev, entry_idx, ghostVars, result, returned,
                   next_frame_idx, num_frames, frame_paths, observer,
                   container_status, proc, written, total, log, pending, files>>

\* -------------------------------------------------------- FrameExtractor
\* update(k) is called: self.frames.seek(k), whose assertion comes first
CallUpdate(k) ==
    /\ pc = "idle"
    /\ Begin("update_seek", k)
    /\ last_req' = <<last_req[2], k>>
    /\ IF ~(k >= next_frame_idx)
       THEN /\ pc' = "idle"
            /\ result' = Res("update", "AssertionError", 0 - 1, NonePath, k)
       ELSE /\ pc' = IF next_frame_idx = 0 - 1 THEN "s_obs" ELSE "seek_loop"
            /\ UNCHANGED result
    /\ UNCHANGED <<seqVars, envVars, returned, current_frame_path,
                   est_num_frames, ctor>>

\* PIL.Image.open(path): the exception it raises
ImageOpenError(fs, path) ==
    IF path = NonePath THEN "AttributeError"
    ELSE IF path \in fs THEN "none"
    ELSE "FileNotFoundError"

\* value() is called
CallValue ==
    /\ pc = "idle"
    /\ Begin("value", target)
    /\ pc' = "idle"
    /\ result' = LET exc == ImageOpenError(files, current_frame_path)
                 IN  Res("value", IF exc = "none" THEN "ok" ELSE exc, 0 - 1,
                         current_frame_path, target)
    /\ UNCHANGED <<seqVars, envVars, returned, ghostVars>>

\* ---------------------------------------------------------- specifications
CallerStep ==
    \/ StartObserver
    \/ RunContainer
    \/ SeekLoop
    \/ NextTop
    \/ NextLoop
    \/ NextPoll
    \/ NextGet

Next ==
    \/ CallNext
    \/ \E k \in 0..MaxFrames : CallSeek(k)
    \/ CallClose
    \/ CallerStep
    \/ ProcWrite
    \/ ProcExit
    \/ WatcherDeliver

NextFault ==
    \/ Next
    \/ ProcExitNoMarker
    \/ ForceDeliver

\* construction, then the operations of the sequencer
NextCtor ==
    \/ \E exists \in BOOLEAN, filter \in BOOLEAN, ok \in BOOLEAN,
          est \in {total, total + 1} : Construct(exists, filter, ok, est)
    \/ Next

\* the sequencer while another run extracts into the same directory
NextShared ==
    \/ Next
    \/ OtherProcWrite

\* a caller that uses the sequencer and a FrameExtractor over it
NextAll ==
    \/ Next
    \/ \E k \in 0..MaxFrames : CallUpdate(k)
    \/ CallValue

\* the evaluation engine drives the sequencer through its FrameExtractor
NextAgg ==
    \/ \E k \in 0..MaxFrames : CallUpdate(k)
    \/ CallValue
    \/ CallerStep
    \/ ProcWrite
    \/ ProcExit
    \/ WatcherDeliver

\* the well-behaved environment
Spec ==
    Init /\ [][Next]_vars

\* the well-behaved environment, from before the construction
SpecCtor ==
    InitNew /\ [][NextCtor]_vars

\* the well-behaved environment with a concurrent run of another id
SpecShared ==
    Init /\ [][NextShared]_vars

\* the well-behaved environment, the caller being a FrameExtractor
SpecAgg ==
    Init /\ [][NextAgg]_vars

\* the well-behaved environment, every operation open to the caller
SpecAll ==
    Init /\ [][NextAll]_vars

\* the environment with a missing log marker and foreign notifications
SpecFault ==
    Init /\ [][NextFault]_vars

\* the caller's thread, the container and the observer thread keep running
Fairness ==
    /\ WF_vars(CallerStep)
    /\ WF_vars(ProcWrite)
    /\ WF_vars(ProcExit)
    /\ WF_vars(WatcherDeliver)

SpecLive ==
    Init /\ [][Next]_vars /\ Fairness

\* the faulty environment, with the same three threads kept running
SpecFaultLive ==
    Init /\ [][NextFault]_vars /\ Fairness

TypeOK ==
    /\ pc \in {"new", "failed", "idle", "s_obs", "s_run", "seek_loop", "top", "loop", "poll", "get"}
    /\ next_frame_idx \in (0 - 1)..MaxFrames + 1
    /\ written \in 0..total

\* ------------------------------------------------------------ properties
Errors ==
    {"RuntimeError", "AssertionError", "IndexError", "FileNotFoundError"}

\* C1: the successive pairs returned by __next__ carry the indices 0, 1,
\* 2, ... in exactly that order, whatever the order in which the
\* notifications arrived: none skipped, repeated or out of order.
C1_IndicesInOrder ==
    \A j \in 1..Len(returned) : returned[j][1] = j - 1

\* frame 0 is returned while the notification of file 3 has arrived and the
\* notification of file 2 has not
C1_Witness ==
    /\ pc = "idle"
    /\ result.kind = "frame"
    /\ result.idx = 0
    /\ Len(frame_paths) >= 3
    /\ frame_paths[2] = NonePath
    /\ frame_paths[3] # NonePath

\* C2: every returned pair (i, path) carries the path of file number i+1 of
\* the run, the notification of file number k is stored in zero-based slot
\* k-1, no more than N pairs are returned, and a pull that ends when N
\* frames have been returned without returning a frame signals
\* end-of-stream.
C2_PathOfIndex ==
    /\ \A j \in 1..Len(returned) :
         returned[j][2] = FrameFile(SelfId, returned[j][1] + 1)
    /\ \A i \in 1..Len(frame_paths) :
         frame_paths[i] # NonePath => ParseInt(frame_paths[i].digits) = i
    /\ Len(returned) <= total
    /\ (pc = "idle" /\ result.op = "next" /\ result.kind # "frame"
          /\ Len(returned) = total)
       => result.kind = "StopIteration"

\* three frames (0, file 1), (1, file 2), (2, file 3) were returned and the
\* fourth pull signalled end-of-stream
C2_Witness ==
    /\ pc = "idle"
    /\ total = 3
    /\ result.op = "next"
    /\ result.kind = "StopIteration"
    /\ returned = << <<0, FrameFile(SelfId, 1)>>, <<1, FrameFile(SelfId, 2)>>,
                     <<2, FrameFile(SelfId, 3)>> >>

\* C3: end-of-stream is signalled (the observer is stopped, StopIteration
\* leaves a pull, a started close returns) only when the cursor equals the
\* number N of frames the process reported and all N frames were returned;
\* observing the exit with cursor < N never ends the stream.
C3_NoPrematureEnd ==
    /\ observer = "stopped"
       => (next_frame_idx = total /\ num_frames = total /\ Len(returned) = total)
    /\ (pc = "idle" /\ result.kind = "StopIteration")
       => (next_frame_idx = total /\ Len(returned) = total)
    /\ num_frames # NoneInt => next_frame_idx <= num_frames

\* the exit was observed with frame=N, the pull is waiting on the empty
\* queue for the frame at the cursor, whose notification is still to come
C3_Witness ==
    /\ pc = "get"
    /\ op = "next"
    /\ num_frames = total
    /\ next_frame_idx < total
    /\ path_queue = <<>>
    /\ pending # {}
    /\ frame_paths[next_frame_idx + 1] = NonePath

\* C4: with the process running to its exit and every notification being
\* delivered, every pull eventually returns a frame or signals
\* end-of-stream.
C4_PullReturns ==
    (pc # "idle" /\ op = "next")
      ~> (pc = "idle" /\ result.op = "next"
            /\ result.kind \in {"frame", "StopIteration"})

\* the last frame was returned before the exit was observed: a pull waits
\* on a queue that will stay empty while the container is still running
C4_Witness ==
    /\ pc = "get"
    /\ op = "next"
    /\ next_frame_idx = total
    /\ num_frames = NoneInt
    /\ proc = "running"
    /\ path_queue = <<>>
    /\ pending = {}

\* C5: a seek(k) that returns leaves the cursor equal to k.
C5_SeekLandsOnTarget ==
    (pc = "idle" /\ result.op = "seek" /\ result.kind = "ok")
      => next_frame_idx = result.arg

\* C6: after a pull has returned frame i >= 1 the file of frame i-1 (file
\* number i) is not in the directory, and a file that is missing when a pull
\* deletes it never surfaces as an error.
C6_PreviousFileDeleted ==
    /\ (pc = "idle" /\ result.op = "next" /\ result.kind = "frame"
          /\ result.idx >= 1)
       => FrameFile(SelfId, result.idx) \notin files
    /\ result.kind # "FileNotFoundError"

\* frame 1 or later was returned, its own file is still there
C6_Witness ==
    /\ pc = "idle"
    /\ result.op = "next"
    /\ result.kind = "frame"
    /\ result.idx >= 1
    /\ result.path \in files

\* C7: during a close() that follows a returned close() or a pull that
\* signalled end-of-stream, no step changes the cursor, num_frames, the
\* path table, the observer, the container status or the directory, and
\* the close() returns without an error, with the sequencer (if it was
\* ever started) at its bound, the observer stopped and the exit observed.
C7_CloseIdempotent ==
    [][ ( /\ op' = "close"
          /\ \/ prev'.op = "close" /\ prev'.kind = "ok"
             \/ prev'.op = "next" /\ prev'.kind = "StopIteration" )
        => ( /\ SeqState' = SeqState
             /\ result'.kind \notin Errors
             /\ pc' = "idle" => (result'.op = "close" /\ result'.kind = "ok")
             /\ next_frame_idx # 0 - 1
                => ( /\ next_frame_idx = num_frames
                     /\ observer = "stopped"
                     /\ container_status = "exited" ) ) ]_vars

\* a second close() has returned after a first one that drained the frames
C7_Witness ==
    /\ pc = "idle"
    /\ result.op = "close"
    /\ result.kind = "ok"
    /\ prev.op = "close"
    /\ prev.kind = "ok"
    /\ next_frame_idx = total
    /\ observer = "stopped"

\* C8: a close() that finds the sequencer started eventually returns, and
\* then the cursor equals the bound the process reported, the exit has been
\* observed and the observer is stopped.
C8_CloseDrains ==
    (pc # "idle" /\ op = "close")
      ~> ( /\ pc = "idle"
           /\ result.op = "close"
           /\ result.kind = "ok"
           /\ next_frame_idx = num_frames
           /\ num_frames = total
           /\ container_status = "exited"
           /\ observer = "stopped" )

\* close() begins mid-stream, the bound not yet known
C8_Witness ==
    /\ pc = "top"
    /\ op = "close"
    /\ prev.kind = "frame"
    /\ next_frame_idx > 0
    /\ next_frame_idx < total
    /\ num_frames = NoneInt

\* C9: the pull that receives a notification whose name does not match the
\* run's index pattern raises RuntimeError and leaves the path table as it
\* was; no slot ever holds a name that does not match.
C9_NonMatchingRaises ==
    [][ /\ ( /\ pc = "get"
             /\ pc' # "get"
             /\ path_queue # <<>>
             /\ ~IdxReMatch(SelfId, Head(path_queue)) )
           => ( /\ pc' = "idle"
                /\ result'.kind = "RuntimeError"
                /\ frame_paths' = frame_paths
                /\ path_queue' = Tail(path_queue) )
        /\ \A i \in 1..Len(frame_paths') :
             frame_paths'[i] # NonePath => IdxReMatch(SelfId, frame_paths'[i])
      ]_vars

\* a pull has raised on an injected notification, the container not yet
\* seen as exited
C9_Witness ==
    /\ pc = "idle"
    /\ result.op = "next"
    /\ result.kind = "RuntimeError"
    /\ forced >= 1
    /\ container_status # "exited"

\* C10: when the caller sees the RuntimeError of a pull, the observer is
\* not running.
C10_ObserverStoppedOnError ==
    (pc = "idle" /\ result.kind = "RuntimeError") => observer # "running"

\* C11: a close() run by __exit__ after the scope was left on an exception
\* (of the caller's code, or a RuntimeError of a pull) eventually returns,
\* with the observer stopped and the exit of the container observed.
C11_ScopeExitCleansUp ==
    (pc # "idle" /\ op = "close")
      ~> ( /\ pc = "idle"
           /\ result.op = "close"
           /\ observer = "stopped"
           /\ container_status = "exited" )

\* C12: after update(k) has returned, the recorded current path is the
\* path of frame k, that is of file number k+1.
C12_UpdateRecordsRequestedFrame ==
    (pc = "idle" /\ result.op = "update" /\ result.kind = "ok")
      => current_frame_path = FrameFile(SelfId, result.arg + 1)

\* C13: update(k) fails on seek's assertion exactly when k is below the
\* index requested by the update before it, and then at once, the cursor
\* and the recorded path being those of the call's beginning.
C13_UpdatePrecondition ==
    (pc = "idle" /\ result.op = "update")
      => /\ (result.kind = "AssertionError") <=> (last_req[2] < last_req[1])
         /\ result.kind = "AssertionError" => next_frame_idx = entry_idx

\* C14: a failure of the estimation probe does not prevent the
\* construction (the sequencer exists, without an estimate), and with an
\* ffmpeg_filter no probe is attempted.
C14_ProbeFailureDoesNotBlock ==
    /\ (ctor.probed /\ ~ctor.probe_ok)
       => (pc # "failed" /\ est_num_frames = NoneInt)
    /\ ctor.filter => ~ctor.probed

\* C15: num_frames is None as long as the exit of the container has not
\* been observed; it is set by the poll that first observes the exit, to the
\* count of the log, whatever the estimate; once set it never changes; and
\* the cursor never exceeds it.
C15_NumFramesAuthoritative ==
    [][ /\ num_frames # NoneInt => num_frames' = num_frames
        /\ (num_frames = NoneInt /\ num_frames' # NoneInt)
           => ( /\ pc = "poll"
                /\ container_status # "exited"
                /\ container_status' = "exited"
                /\ log.marker
                /\ num_frames' = log.frame
                /\ log.frame = written )
        /\ container_status' # "exited" => num_frames' = NoneInt
        /\ num_frames' # NoneInt => next_frame_idx' <= num_frames'
      ]_vars

\* the bound is known and differs from the estimate the probe gave
C15_Witness ==
    /\ num_frames = total
    /\ est_num_frames = total + 1
    /\ next_frame_idx = num_frames
    /\ pc = "idle"

\* C16 as stated: between operations, the observer and the container are
\* live exactly when the sequencer has started and the cursor has not
\* reached the bound.
C16_LiveIffStartedAndNotDone ==
    pc = "idle"
      => ( (observer = "running" /\ proc = "running")
           <=> ( /\ next_frame_idx # 0 - 1
                 /\ ~(num_frames # NoneInt /\ next_frame_idx = num_frames) ) )

\* C16 as amended: between operations, nothing is live before the start;
\* from the start the observer stays live at least until the cursor reaches
\* the known bound, and it is stopped once a pull (or a started close) has
\* signalled end-of-stream; it is stopped only at the bound, the container
\* having exited; the container is live only after the start, while the
\* observer is live and the bound unknown, and it may exit earlier.
C16_Liveness ==
    pc = "idle"
      => /\ next_frame_idx = 0 - 1 => (observer = "none" /\ proc = "notstarted")
         /\ (next_frame_idx # 0 - 1
                /\ (num_frames = NoneInt \/ next_frame_idx < num_frames))
            => observer = "running"
         /\ observer = "running" => next_frame_idx # 0 - 1
         /\ proc = "running"
            => (next_frame_idx # 0 - 1 /\ observer = "running" /\ num_frames = NoneInt)
         /\ observer = "stopped"
            => (next_frame_idx = num_frames /\ proc = "exited")
         /\ ( \/ result.kind = "StopIteration"
              \/ (result.op = "close" /\ result.kind = "ok" /\ next_frame_idx # 0 - 1) )
            => observer = "stopped"

\* the container has exited, frames are still to be pulled and the
\* observer is running
C16_Witness ==
    /\ pc = "idle"
    /\ proc = "exited"
    /\ observer = "running"
    /\ next_frame_idx >= 0
    /\ next_frame_idx < total

\* C17: the constructor starts neither the observer nor the container and
\* leaves the cursor at -1; the observer and the container are started only
\* by a pull or a seek that finds the cursor at -1, the observer first, the
\* cursor becoming 0 with the container; neither is started a second time;
\* and no step of a close() that finds the cursor at -1 changes anything of
\* the sequencer or its resources.
C17_LazyStartOnce ==
    [][ /\ pc = "new"
           => (observer' = "none" /\ proc' = "notstarted" /\ next_frame_idx' = 0 - 1)
        /\ (observer' = "running" /\ observer # "running")
           => ( /\ observer = "none"
                /\ op \in {"next", "seek"}
                /\ next_frame_idx = 0 - 1
                /\ proc = "notstarted" )
        /\ (proc' = "running" /\ proc # "running")
           => ( /\ proc = "notstarted"
                /\ op \in {"next", "seek"}
                /\ observer = "running"
                /\ next_frame_idx = 0 - 1
                /\ next_frame_idx' = 0 )
        /\ (next_frame_idx = 0 - 1 /\ next_frame_idx' # 0 - 1)
           => (next_frame_idx' = 0 /\ proc' = "running" /\ observer' = "running")
        /\ (op' = "close" /\ next_frame_idx = 0 - 1)
           => ( /\ SeqState' = SeqState
                /\ proc' = proc
                /\ path_queue' = path_queue
                /\ pc' = "idle"
                /\ result'.kind = "ok" )
      ]_vars

\* a seek, the first operation after the construction, has started the
\* extraction; the estimate was probed
C17_Witness ==
    /\ pc = "idle"
    /\ ctor.probe_ok
    /\ prev.op = "init"
    /\ result.op = "seek"
    /\ result.kind = "ok"
    /\ next_frame_idx = 0
    /\ observer = "running"
    /\ proc # "notstarted"

\* C18: while a run with another id writes its files into the same
\* directory, under every interleaving, the queue of this sequencer and the
\* events its observer holds carry only names of its own run, it stores and
\* returns only paths of its own run, no step of it raises on a foreign
\* name, and no step removes a file of the other run.
C18_NoCrossContamination ==
    [][ /\ \A i \in 1..Len(path_queue') : path_queue'[i].run = SelfId
        /\ \A f \in pending' : f.run = SelfId
        /\ \A i \in 1..Len(frame_paths') :
             frame_paths'[i] # NonePath => frame_paths'[i].run = SelfId
        /\ \A j \in 1..Len(returned') : returned'[j][2].run = SelfId
        /\ result'.kind # "RuntimeError"
        /\ \A f \in files : f.run # SelfId => f \in files'
        /\ \A f \in files \ files' : f.run = SelfId
      ]_vars

\* a frame of this run has been returned and its predecessor deleted while
\* all the files of the other run lie in the directory
C18_Witness ==
    /\ pc = "idle"
    /\ result.kind = "frame"
    /\ result.idx >= 1
    /\ \A k \in 1..MaxOtherFrames : FrameFile(OtherId, k) \in files
    /\ FrameFile(SelfId, result.idx) \notin files

\* C19 as stated: the cursor never decreases and never returns to -1, a
\* pull that returns a frame leaves it one above its value when the pull
\* began, and a pull that signals end-of-stream or raises leaves it at that
\* value.
C19_CursorStepsFromEntry ==
    [][ /\ next_frame_idx' >= next_frame_idx
        /\ (pc # "idle" /\ pc' = "idle" /\ result'.op = "next")
           => next_frame_idx'
                = entry_idx + (IF result'.kind = "frame" THEN 1 ELSE 0)
      ]_vars

\* C19 as amended: the cursor never decreases and never returns to -1; the
\* only changes are the start, from -1 to 0, and the return of a frame,
\* which adds exactly one; so a pull that returns a frame leaves it one
\* above, and a pull that signals end-of-stream or raises leaves it at, the
\* value it had when the pull began or, for the pull that started the
\* extraction, 0.
C19_CursorMonotonic ==
    [][ /\ next_frame_idx' >= next_frame_idx
        /\ next_frame_idx # 0 - 1 => next_frame_idx' # 0 - 1
        /\ next_frame_idx' # next_frame_idx
           => \/ (next_frame_idx = 0 - 1 /\ next_frame_idx' = 0 /\ pc = "s_run"
                   /\ returned' = returned)
              \/ ( /\ next_frame_idx' = next_frame_idx + 1
                   /\ pc = "loop"
                   /\ Len(returned') = Len(returned) + 1
                   /\ returned'[Len(returned')][1] = next_frame_idx )
        /\ returned' # returned => next_frame_idx' = next_frame_idx + 1
        /\ (pc # "idle" /\ pc' = "idle" /\ result'.op = "next")
           => next_frame_idx'
                = (IF entry_idx = 0 - 1 THEN 0 ELSE entry_idx)
                  + (IF result'.kind = "frame" THEN 1 ELSE 0)
      ]_vars

\* a pull that found the sequencer started has raised, the cursor where it
\* was
C19_Witness ==
    /\ pc = "idle"
    /\ result.op = "next"
    /\ result.kind = "RuntimeError"
    /\ entry_idx >= 1
    /\ next_frame_idx = entry_idx

\* C20 as stated: after a pull has returned frame i, slot i of the path
\* table holds no path.
C20_SlotClearedAfterDelivery ==
    (pc = "idle" /\ result.op = "next" /\ result.kind = "frame")
      => frame_paths[result.idx + 1] = NonePath

\* C20 as amended: a slot that holds a path keeps that path in every step
\* (it is written at most once and never cleared), each slot is delivered at
\* most once, and after a pull has returned frame i slot i still holds the
\* path that was returned.
C20_SlotWrittenOnceAndKept ==
    [][ /\ Len(frame_paths') >= Len(frame_paths)
        /\ \A i \in 1..Len(frame_paths) :
             frame_paths[i] # NonePath => frame_paths'[i] = frame_paths[i]
        /\ \A j, k \in 1..Len(returned') :
             returned'[j][1] = returned'[k][1] => j = k
        /\ \A j \in 1..Len(returned') :
             /\ returned'[j][1] + 1 <= Len(frame_paths')
             /\ frame_paths'[returned'[j][1] + 1] = returned'[j][2]
             /\ returned'[j][2] # NonePath
      ]_vars

\* frame 1 or later has been returned: the slot of frame 0, delivered and
\* its file deleted, still holds its path
C20_Witness ==
    /\ pc = "idle"
    /\ result.op = "next"
    /\ result.kind = "frame"
    /\ result.idx >= 1
    /\ frame_paths[1] = FrameFile(SelfId, 1)
    /\ FrameFile(SelfId, 1) \notin files

\* C21: a file is removed only by the first step of a pull, and it is the
\* file of the frame delivered before; so when a pull or an update has
\* returned a frame its file is in the directory, it stays there until the
\* next operation that pulls begins, and a value() that follows a returned
\* update() opens an existing file.
C21_FileKeptUntilNextPull ==
    [][ /\ \A f \in files \ files' :
             /\ pc = "top"
             /\ next_frame_idx >= 1
             /\ f = returned[Len(returned)][2]
        /\ (pc' = "idle" /\ result'.kind = "frame")
           => result'.path \in files'
        /\ (pc' = "idle" /\ result'.op = "update" /\ result'.kind = "ok")
           => (current_frame_path' = result'.path /\ current_frame_path' \in files')
        /\ (pc' = "idle" /\ result'.op = "value" /\ prev'.op = "update"
               /\ prev'.kind = "ok")
           => result'.kind = "ok"
      ]_vars

\* value() has opened the file of frame 1, recorded by the second update()
C21_Witness ==
    /\ pc = "idle"
    /\ result.op = "value"
    /\ result.kind = "ok"
    /\ prev.op = "update"
    /\ prev.idx = 1
    /\ current_frame_path = FrameFile(SelfId, 2)
    /\ FrameFile(SelfId, 1) \notin files

\* C22: the extraction process exists only once the observer has been
\* started, the cursor is 0 only once both are, and therefore every file
\* the process has closed has its notification pending at the observer, on
\* the queue, or stored in the path table: none is lost at start-up.
C22_WatcherObservesBeforeLaunch ==
    /\ proc # "notstarted" => observer # "none"
    /\ next_frame_idx >= 0 => (observer # "none" /\ proc # "notstarted")
    /\ \A k \in 1..written :
         \/ FrameFile(SelfId, k) \in pending
         \/ \E i \in 1..Len(path_queue) : path_queue[i] = FrameFile(SelfId, k)
         \/ (Len(frame_paths) >= k /\ frame_paths[k] = FrameFile(SelfId, k))

\* the process has closed all its files before the first pull reached its
\* first line, and every notification is with the observer or on the queue
C22_Witness ==
    /\ pc = "top"
    /\ next_frame_idx = 0
    /\ frame_paths = <<>>
    /\ written = total
    /\ total >= 2
    /\ Cardinality(pending) + Len(path_queue) = total

\* C23: once end-of-stream has been signalled, by a pull or inside a close()
\* of a started sequencer, none of the N frame files of the run is left in the directory, and N
\* files had been written.
C23_NoFileLeftAtEnd ==
    (/\ pc = "idle"
     /\ \/ result.kind = "StopIteration"
        \/ (result.op = "close" /\ result.kind = "ok" /\ next_frame_idx >= 0))
    => /\ written = total
       /\ num_frames = total
       /\ \A k \in 1..total : FrameFile(SelfId, k) \notin files

\* the bound became known inside the wait loop of the pull that signalled
\* the end: the table was padded with a slot for frame N before the exit of
\* the process was seen
C23_Witness ==
    /\ pc = "idle"
    /\ result.op = "next"
    /\ result.kind = "StopIteration"
    /\ total >= 2
    /\ Len(frame_paths) = total + 1
    /\ files = {}

\* C24: the assertion of the padding step and the indexing of the path
\* table never fail. Once started the table is at least as long as the
\* cursor; when a pull must pad, the length is the cursor exactly; the slot
\* of the cursor exists wherever the wait loop reads it; every frame left
\* the loop with its slot set; and no operation ends in IndexError, nor in
\* AssertionError other than the precondition of seek.
C24_PullAssertionsHold ==
    /\ next_frame_idx >= 0 => Len(frame_paths) >= next_frame_idx
    /\ (/\ pc = "top"
        /\ Len(frame_paths) < next_frame_idx + 1
        /\ (num_frames = NoneInt \/ Len(frame_paths) < num_frames))
       => Len(frame_paths) = next_frame_idx
    /\ pc \in {"loop", "poll", "get"} => Len(frame_paths) >= next_frame_idx + 1
    /\ \A i \in 1..Len(returned) :
         /\ returned[i][2] # NonePath
         /\ returned[i][2] = frame_paths[returned[i][1] + 1]
    /\ result.kind # "IndexError"
    /\ result.kind = "AssertionError" => result.op = "seek"

\* the bound is known, the last notification has not been consumed, and the
\* pull for the last frame has padded the table by exactly one empty slot
C24_Witness ==
    /\ pc = "loop"
    /\ op = "next"
    /\ total >= 2
    /\ num_frames = total
    /\ next_frame_idx = total - 1
    /\ Len(frame_paths) = total
    /\ frame_paths[total] = NonePath

====
